---- MODULE Spec2Model ----
(***************************************************************************)
(* Model of the browser lifecycle / connection-strategy manager, class     *)
(* Browser of src/browser.py.  The manager's four handles are the state;   *)
(* get_playwright_browser and close are modelled step by step, one action  *)
(* per synchronous segment or awaited call; new_context and __del__ are    *)
(* one action each.  The automation engine, the                            *)
(* debug endpoint on port 9222, the file system and subprocess.Popen are   *)
(* the environment: each of their outcomes is a nondeterministic choice.   *)
(***************************************************************************)
EXTENDS Integers, Sequences, FiniteSets, TLC

\* ------------------------------------------------------------------ values

\* Python None in a handle field (handles themselves are identifiers 1, 2, ...).
None == 0

\* A handle attribute removed by `del self.<attr>` (reading it raises AttributeError).
Deleted == -1

\* An absent optional string of the configuration.
NoneStr == "None"

\* Python truthiness of an optional configuration string.
TruthyStr(s) == s # NoneStr /\ s # ""

\* Python truthiness of a handle field that is readable (None is falsy, objects truthy).
Truthy(h) == h > 0

\* ------------------------------------------------------------------ bounds

\* Number of operations (get_playwright_browser, close, new_context, destruction)
\* a behaviour may start.
MaxCalls == 3

\* The same, when the callers are concurrent coroutines.
MaxConcCalls == 2

\* The same, for a call racing a close() of an initialized manager: one call to
\* initialize, then the two racing calls.
MaxRaceCalls == 3

\* The coroutines that may call into the one manager.
Tasks == {1, 2}

\* ------------------------------------------------------------ configuration

\* BrowserConfig: the fields the manager branches on.
BrowserConfig ==
    [ cdp_url              : {NoneStr, "http://remote:9223"},
      wss_url              : {NoneStr, "wss://remote"},
      chrome_instance_path : {NoneStr, "/opt/chrome"},
      browser_type         : {"chromium", "msedge"},
      user_data_dir        : {NoneStr, "/home/u/profile"},
      use_existing_browser : BOOLEAN,
      force_keep_alive     : BOOLEAN,
      disable_security     : BOOLEAN,
      extra_chromium_args  : {<<"--mute-audio">>} ]

\* __init__, lines 98-104: self.disable_security_args.
DisableSecurityArgs(cfg) ==
    IF cfg.disable_security
    THEN << "--disable-web-security", "--disable-site-isolation-trials",
            "--disable-features=IsolateOrigins,site-per-process" >>
    ELSE << >>

\* _setup_standard_browser, lines 260-274: launch_args.
LaunchArgs ==
    << "--no-sandbox", "--disable-blink-features=AutomationControlled",
       "--disable-infobars", "--disable-background-timer-throttling",
       "--disable-popup-blocking", "--disable-backgrounding-occluded-windows",
       "--disable-renderer-backgrounding", "--disable-window-activation",
       "--disable-focus-on-load", "--no-first-run", "--no-default-browser-check",
       "--no-startup-window", "--window-position=0,0" >>

\* Lines 303-304: the flags that disable private browsing.
PrivateBrowsingArgs == << "--no-private-window", "--no-incognito" >>

\* f'--user-data-dir={temp_dir.name}' (line 325), for temporary directory d.
UserDataDirArg(d) == "--user-data-dir=/tmp/edge_profile_" \o ToString(d)

\* Lines 302-305: args of the Edge launch of the with-profile branch (neither
\* self.disable_security_args nor the temporary profile directory is in them).
EdgeProfileArgs(cfg) ==
    LaunchArgs \o cfg.extra_chromium_args \o PrivateBrowsingArgs

\* Lines 319 and 324-326: args of the Edge launch on a disposable profile d.
EdgeTmpArgs(cfg, d) ==
    (LaunchArgs \o DisableSecurityArgs(cfg)) \o cfg.extra_chromium_args
       \o << UserDataDirArg(d) >>

\* Line 338: args of the launch of the other browser kinds.
StandardArgs(cfg) ==
    LaunchArgs \o DisableSecurityArgs(cfg) \o cfg.extra_chromium_args

\* The endpoint of the local debug protocol used by the probe/attach paths.
LocalEndpoint == "http://localhost:9222"

\* Poll budget of the local-executable strategy: for _ in range(10).
InstancePollBudget == 10

\* Poll budget of the Edge-reuse strategy: max_wait = 30.
EdgePollBudget == 30

\* Outcomes of requests.get('http://localhost:9222/json/version', timeout=2).
ProbeOutcomes == {"200", "non200", "ConnectionError", "OtherError"}

\* _get_edge_path: the known install paths, in probing order.
WindowsPaths == << "C:/Program Files (x86)/Microsoft/Edge/Application/msedge.exe",
                   "C:/Program Files/Microsoft/Edge/Application/msedge.exe" >>

DarwinPath == "/Applications/Microsoft Edge.app/Contents/MacOS/Microsoft Edge"

LinuxPaths == << "/usr/bin/microsoft-edge", "/usr/bin/microsoft-edge-stable",
                 "/opt/microsoft/msedge/msedge" >>

Range(q) == {q[k] : k \in 1..Len(q)}

\* The known install paths of a platform (none for an unsupported one).
KnownPaths(system) ==
    CASE system = "Windows" -> Range(WindowsPaths)
      [] system = "Darwin"  -> {DarwinPath}
      [] system = "Linux"   -> Range(LinuxPaths)
      [] OTHER              -> {}

\* What platform.system() may return.
Systems == {"Windows", "Darwin", "Linux", "FreeBSD"}

\* The machine the manager runs on: its platform and which known paths exist.
EdgeEnvs ==
    UNION { { [system |-> sy, existing |-> ex] : ex \in SUBSET KnownPaths(sy) } :
            sy \in Systems }

VARIABLES
    config,              \* self.config
    machine,             \* the machine the manager runs on: platform and installed paths
    playwright,          \* self.playwright
    playwright_browser,  \* self.playwright_browser
    browser_context,     \* self.browser_context
    temp_dir,            \* self.temp_dir
    engines,             \* automation engines started: id -> "live" | "stopped"
    browsers,            \* browsers created or attached: id -> [st, via, target]
    contexts,            \* browser contexts created: id -> "open" | "closed"
    tempdirs,            \* temporary directories created: id -> number of cleanup() calls
    pc,                  \* per task: position in the running call ("idle" between calls)
    op,                  \* per task: the call it runs or ran last
    loc,                 \* per task: locals of the running call
    att,                 \* per task: collaborator calls made by the running/last call
    ret,                 \* per task: outcome of the last completed call
    pre,                 \* per task: the four handles at the start of the call
    raced,               \* per task: its initialization overlapped another one
    calls,               \* number of calls started
    budget,              \* number of calls the behaviour may start
    destroyed,           \* "no", or what __del__ did when the manager was destroyed
    doneLog,             \* completed calls, in completion order
    lastStore,           \* the task whose _init stored its pair last
    initsSinceClose,     \* successful initializations since the last close() call
    returned             \* handles returned by get_playwright_browser since the last close()

mgr   == <<playwright, playwright_browser, browser_context, temp_dir>>
world == <<engines, browsers, contexts, tempdirs>>
task  == <<pc, op, loc, att, ret, pre, raced>>
hist  == <<calls, budget, destroyed, doneLog, lastStore, initsSinceClose, returned>>
vars  == <<config, machine, mgr, world, task, hist>>

\* ------------------------------------------------------------------ helpers

NoAttempts ==
    [ cdpCfg |-> 0, cdpLocal |-> 0, wss |-> 0, probe |-> 0, spawn |-> 0,
      launch |-> 0, lastEv |-> "none", firstProbe |-> "none", got200 |-> FALSE,
      strat |-> {},
      ctxClose |-> 0, brClose |-> 0, stop |-> 0, cleanup |-> 0, raised |-> {} ]

NoLocals ==
    [ pw |-> None, br |-> None, i |-> 0, tmp |-> None, target |-> None,
      edge_path |-> NoneStr ]

NoReturn == [ kind |-> "none", val |-> None, exc |-> "none" ]

Snapshot ==
    [ playwright |-> playwright, playwright_browser |-> playwright_browser,
      browser_context |-> browser_context, temp_dir |-> temp_dir ]

\* Positions at which a coroutine is suspended in an awaited call: only there may
\* another coroutine of the same event loop run.
AwaitPcs ==
    { "start", "cdp", "wss", "inst_attach1", "inst_sleep", "inst_attach2",
      "edge_attach1", "edge_attach2", "edge_launch_profile", "edge_new_context",
      "edge_launch_tmp", "launch", "c_ctx_wait", "c_browser_wait", "c_stop_wait" }

\* Positions of a running initialization (the caller has seen an absent handle
\* and has not yet stored or failed).
InitPcs ==
    { "start", "setup", "cdp", "wss", "inst_probe1", "inst_attach1", "inst_spawn",
      "inst_poll", "inst_sleep", "inst_attach2", "std", "edge_probe1", "edge_attach1",
      "edge_spawn", "edge_poll", "edge_attach2", "edge_launch_profile",
      "edge_new_context", "edge_launch_tmp", "launch", "store" }

\* asyncio runs one coroutine at a time: t may take a step only while every other
\* coroutine is between calls or suspended in an await.
CanRun(t) == \A u \in Tasks \ {t} : pc[u] = "idle" \/ pc[u] \in AwaitPcs

\* Callers hold a reference to the manager, so they call it only while it has not
\* been destroyed.  The coroutines are interchangeable: the first call of a
\* behaviour is made by coroutine 1.
MayStart(t) == destroyed = "no" /\ (calls > 0 \/ t = 1)

\* Coroutine t is at position p and is the one the event loop runs next.
At(t, p) == pc[t] = p /\ CanRun(t)

\* The observations of a call after one more probe of the debug endpoint ...
Probed(a) == [a EXCEPT !.probe = @ + 1, !.lastEv = "probe"]

\* ... when that probe answered 200 (response.status_code == 200).
Got200(a) == [a EXCEPT !.got200 = TRUE]

\* What a call remembers of its first probe: whether it answered 200.
FirstOutcome(r) == IF r = "200" THEN "200" ELSE "other"

\* ... and after a one-second sleep.
Slept(a) == [a EXCEPT !.lastEv = "sleep"]

\* ... and after subprocess.Popen has started the browser process.
Spawned(a) == [a EXCEPT !.spawn = @ + 1, !.lastEv = "spawn"]

\* The call of t ends by returning v ("done": the result is with the caller).
Return(t, v) ==
    /\ pc' = [pc EXCEPT ![t] = "done"]
    /\ ret' = [ret EXCEPT ![t] = [kind |-> "ok", val |-> v, exc |-> "none"]]
    /\ doneLog' = Append(doneLog, [op |-> op[t], t |-> t, ok |-> TRUE,
                                    raised |-> att[t].raised # {}])

\* The call of t ends by raising e to its caller.
Raise(t, e) ==
    /\ pc' = [pc EXCEPT ![t] = "done"]
    /\ ret' = [ret EXCEPT ![t] = [kind |-> "raise", val |-> None, exc |-> e]]
    /\ doneLog' = Append(doneLog, [op |-> op[t], t |-> t, ok |-> FALSE,
                                    raised |-> att[t].raised # {}])

\* --------------------------------------------------------------------- Init

\* The configurations whose initialization may call _get_edge_path: no endpoint,
\* no executable path, browser kind msedge (lines 277-283 and 220).
UsesEdgePath(cfg) ==
    /\ ~TruthyStr(cfg.cdp_url) /\ ~TruthyStr(cfg.wss_url)
    /\ ~TruthyStr(cfg.chrome_instance_path)
    /\ cfg.browser_type = "msedge"

\* The configurations whose initialization launches a browser with an argument
\* list: the standard strategy, but for the Edge-reuse branch.  The others never
\* read disable_security, which is then left at its default (True).
BuildsLaunchArgs(cfg) ==
    /\ ~TruthyStr(cfg.cdp_url) /\ ~TruthyStr(cfg.wss_url)
    /\ ~TruthyStr(cfg.chrome_instance_path)
    /\ ~(cfg.browser_type = "msedge" /\ cfg.use_existing_browser
           /\ TruthyStr(cfg.user_data_dir))

\* The machine of a manager that never looks at it.
AnyMachine == [system |-> "Linux", existing |-> {}]

\* Browser.__init__: the four handles start absent.
InitWith(n) ==
    /\ config \in BrowserConfig
    /\ ~BuildsLaunchArgs(config) => config.disable_security
    /\ machine \in IF UsesEdgePath(config) THEN EdgeEnvs ELSE {AnyMachine}
    /\ budget = n
    /\ destroyed = "no"
    /\ playwright = None
    /\ playwright_browser = None
    /\ browser_context = None
    /\ temp_dir = None
    /\ engines = << >>
    /\ browsers = << >>
    /\ contexts = << >>
    /\ tempdirs = << >>
    /\ pc = [t \in Tasks |-> "idle"]
    /\ op = [t \in Tasks |-> "none"]
    /\ loc = [t \in Tasks |-> NoLocals]
    /\ att = [t \in Tasks |-> NoAttempts]
    /\ ret = [t \in Tasks |-> NoReturn]
    /\ pre = [t \in Tasks |-> Snapshot]
    /\ raced = [t \in Tasks |-> FALSE]
    /\ calls = 0
    /\ doneLog = << >>
    /\ lastStore = None
    /\ initsSinceClose = 0
    /\ returned = {}

Init == InitWith(MaxCalls)

\* -------------------------------------------------------------- new_context

\* NewContext going through the lazy initialization before building the context.
NewContextInitializes(t) ==
    /\ At(t, "idle")
    /\ MayStart(t)
    /\ calls < budget
    /\ calls' = calls + 1
    /\ op' = [op EXCEPT ![t] = "new_context"]
    /\ loc' = [loc EXCEPT ![t] = NoLocals]
    /\ att' = [att EXCEPT ![t] = NoAttempts]
    /\ pre' = [pre EXCEPT ![t] = Snapshot]
    /\ raced' = [raced EXCEPT ![t] = FALSE]
    /\ UNCHANGED <<config, machine, mgr, world, budget, destroyed, lastStore,
                   initsSinceClose, returned>>
    /\ IF playwright_browser = None
       THEN /\ pc' = [pc EXCEPT ![t] = "start"]
            /\ UNCHANGED <<ret, doneLog>>
       ELSE Return(t, None)

\* new_context, lines 106-108: BrowserContext(config=config, browser=self) is built
\* and returned; the method has no await and assigns no field.  The object
\* returned is a wrapper, not one of the manager's handles (val stays None).
NewContext(t) ==
    /\ At(t, "idle")
    /\ MayStart(t)
    /\ calls < budget
    /\ calls' = calls + 1
    /\ op' = [op EXCEPT ![t] = "new_context"]
    /\ loc' = [loc EXCEPT ![t] = NoLocals]
    /\ att' = [att EXCEPT ![t] = NoAttempts]
    /\ pre' = [pre EXCEPT ![t] = Snapshot]
    /\ raced' = [raced EXCEPT ![t] = FALSE]
    /\ UNCHANGED <<config, machine, mgr, world, budget, destroyed, lastStore,
                   initsSinceClose, returned>>
    /\ Return(t, None)

\* ---------------------------------------------------- get_playwright_browser

\* The tasks whose initialization is running.
Initializing == {u \in Tasks : pc[u] \in InitPcs}

\* GetPlaywrightBrowser without the test of the cached handle: every call initializes.
GetAlwaysInit(t) ==
    /\ At(t, "idle")
    /\ MayStart(t)
    /\ calls < budget
    /\ calls' = calls + 1
    /\ op' = [op EXCEPT ![t] = "get"]
    /\ loc' = [loc EXCEPT ![t] = NoLocals]
    /\ att' = [att EXCEPT ![t] = NoAttempts]
    /\ pre' = [pre EXCEPT ![t] = Snapshot]
    /\ pc' = [pc EXCEPT ![t] = "start"]
    /\ UNCHANGED <<config, machine, mgr, world, ret, raced, budget, destroyed,
                   doneLog, lastStore, initsSinceClose, returned>>

\* get_playwright_browser, lines 110-115: initialize only when the handle is None,
\* otherwise return the cached handle.  A deleted attribute raises AttributeError.
GetPlaywrightBrowser(t) ==
    /\ At(t, "idle")
    /\ MayStart(t)
    /\ calls < budget
    /\ calls' = calls + 1
    /\ op' = [op EXCEPT ![t] = "get"]
    /\ loc' = [loc EXCEPT ![t] = NoLocals]
    /\ att' = [att EXCEPT ![t] = NoAttempts]
    /\ pre' = [pre EXCEPT ![t] = Snapshot]
    /\ UNCHANGED <<config, machine, mgr, world, budget, destroyed, lastStore,
                   initsSinceClose>>
    /\ IF playwright_browser = Deleted
       THEN /\ Raise(t, "AttributeError")
            /\ raced' = [raced EXCEPT ![t] = FALSE]
            /\ UNCHANGED returned
       ELSE IF playwright_browser = None
       THEN /\ pc' = [pc EXCEPT ![t] = "start"]
            /\ raced' = [u \in Tasks |->
                           IF Initializing \ {t} = {} THEN (u # t /\ raced[u])
                           ELSE (u = t \/ u \in Initializing \/ raced[u])]
            /\ UNCHANGED <<ret, doneLog, returned>>
       ELSE /\ Return(t, playwright_browser)
            /\ raced' = [raced EXCEPT ![t] = FALSE]
            /\ returned' = returned \cup {playwright_browser}

\* _init, line 120: playwright = await async_playwright().start()
StartPlaywright(t) ==
    /\ At(t, "start")
    /\ UNCHANGED <<config, machine, mgr, browsers, contexts, tempdirs, op, att, pre, raced,
                   calls, budget, destroyed, lastStore, initsSinceClose, returned>>
    /\ \/ /\ engines' = Append(engines, "live")
          /\ loc' = [loc EXCEPT ![t].pw = Len(engines) + 1]
          /\ pc' = [pc EXCEPT ![t] = "setup"]
          /\ UNCHANGED <<ret, doneLog>>
       \/ /\ Raise(t, "EngineStartError")
          /\ UNCHANGED <<engines, loc>>

\* Strategy with the WebSocket endpoint tested before the CDP endpoint.
StrategyWssFirst(cfg) ==
    IF TruthyStr(cfg.wss_url) THEN "wss"
    ELSE IF TruthyStr(cfg.cdp_url) THEN "cdp"
    ELSE IF TruthyStr(cfg.chrome_instance_path) THEN "inst_probe1"
    ELSE "std"

\* Strategy with the executable path tested before the WebSocket endpoint.
StrategyInstanceFirst(cfg) ==
    IF TruthyStr(cfg.cdp_url) THEN "cdp"
    ELSE IF TruthyStr(cfg.chrome_instance_path) THEN "inst_probe1"
    ELSE IF TruthyStr(cfg.wss_url) THEN "wss"
    ELSE "std"

\* _setup_browser, lines 450-457: the priority order of the connection strategies.
Strategy(cfg) ==
    IF TruthyStr(cfg.cdp_url) THEN "cdp"
    ELSE IF TruthyStr(cfg.wss_url) THEN "wss"
    ELSE IF TruthyStr(cfg.chrome_instance_path) THEN "inst_probe1"
    ELSE "std"

\* _setup_browser, lines 458-460: a failure of the selected strategy is logged and
\* re-raised; _init stores nothing and get_playwright_browser raises it on.
SetupFail(t, e) == Raise(t, e)

\* A strategy obtained browser b: control returns to _init, line 123.
SetupDone(t, b) ==
    /\ loc' = [loc EXCEPT ![t].br = b]
    /\ pc' = [pc EXCEPT ![t] = "store"]
    /\ UNCHANGED <<ret, doneLog>>

\* A browser handed out by the automation engine loc[t].pw.
NewBrowser(t, via, target) ==
    [st |-> "open", via |-> via, target |-> target, engine |-> loc[t].pw,
     exe |-> NoneStr, profile |-> None, args |-> << >>]

\* A browser launched by the engine loc[t].pw: chromium.launch(executable_path=exe,
\* args=args), in a call that created temporary directory loc[t].tmp.
Launched(t, via, exe, args) ==
    [NewBrowser(t, via, NoneStr) EXCEPT !.exe = exe, !.profile = loc[t].tmp,
                                        !.args = args]

\* _setup_browser, lines 447-457: dispatch to the selected strategy.
SetupBrowser(t) ==
    /\ At(t, "setup")
    /\ pc' = [pc EXCEPT ![t] = Strategy(config)]
    /\ UNCHANGED <<config, machine, mgr, world, op, loc, att, ret, pre, raced, hist>>

\* _setup_cdp, lines 128-134.
SetupCdp(t) ==
    /\ At(t, "cdp")
    /\ UNCHANGED <<config, machine, mgr, engines, contexts, tempdirs, op, pre, raced,
                   calls, budget, destroyed, lastStore, initsSinceClose, returned>>
    /\ IF ~TruthyStr(config.cdp_url)
       THEN /\ att' = [att EXCEPT ![t].strat = @ \cup {"cdp"}]
            /\ SetupFail(t, "ValueError")
            /\ UNCHANGED <<browsers, loc>>
       ELSE /\ att' = [att EXCEPT ![t].strat = @ \cup {"cdp"}, ![t].cdpCfg = @ + 1]
            /\ \/ /\ browsers' = Append(browsers, NewBrowser(t, "cdp", config.cdp_url))
                  /\ SetupDone(t, Len(browsers) + 1)
               \/ /\ SetupFail(t, "PlaywrightError")
                  /\ UNCHANGED <<browsers, loc>>

\* _setup_wss, lines 136-142.
SetupWss(t) ==
    /\ At(t, "wss")
    /\ UNCHANGED <<config, machine, mgr, engines, contexts, tempdirs, op, pre, raced,
                   calls, budget, destroyed, lastStore, initsSinceClose, returned>>
    /\ IF ~TruthyStr(config.wss_url)
       THEN /\ att' = [att EXCEPT ![t].strat = @ \cup {"wss"}]
            /\ SetupFail(t, "ValueError")
            /\ UNCHANGED <<browsers, loc>>
       ELSE /\ att' = [att EXCEPT ![t].strat = @ \cup {"wss"}, ![t].wss = @ + 1]
            /\ \/ /\ browsers' = Append(browsers, NewBrowser(t, "wss", config.wss_url))
                  /\ SetupDone(t, Len(browsers) + 1)
               \/ /\ SetupFail(t, "PlaywrightError")
                  /\ UNCHANGED <<browsers, loc>>

\* AttachLocal falling back to the standard launch when the attach fails.
AttachLocalFallsBack(t, p, e) ==
    /\ At(t, p)
    /\ UNCHANGED <<config, machine, mgr, engines, contexts, tempdirs, op, pre, raced,
                   calls, budget, destroyed, lastStore, initsSinceClose, returned>>
    /\ att' = [att EXCEPT ![t].cdpLocal = @ + 1]
    /\ \/ /\ browsers' = Append(browsers, NewBrowser(t, p, LocalEndpoint))
          /\ SetupDone(t, Len(browsers) + 1)
       \/ /\ pc' = [pc EXCEPT ![t] = "std"]
          /\ UNCHANGED <<browsers, loc, ret, doneLog>>

\* playwright.chromium.connect_over_cdp(endpoint_url='http://localhost:9222'):
\* the attach of the probe/launch strategies, at position p; a failure raises e.
AttachLocal(t, p, e) ==
    /\ At(t, p)
    /\ UNCHANGED <<config, machine, mgr, engines, contexts, tempdirs, op, pre, raced,
                   calls, budget, destroyed, lastStore, initsSinceClose, returned>>
    /\ att' = [att EXCEPT ![t].cdpLocal = @ + 1]
    /\ \/ /\ browsers' = Append(browsers, NewBrowser(t, p, LocalEndpoint))
          /\ SetupDone(t, Len(browsers) + 1)
       \/ /\ SetupFail(t, e)
          /\ UNCHANGED <<browsers, loc>>

\* InstanceProbe going on to spawn whatever the first probe answered.
InstanceProbeSpawnsAnyway(t) ==
    /\ At(t, "inst_probe1")
    /\ UNCHANGED <<config, machine, mgr, world, op, loc, pre, raced,
                   calls, budget, destroyed, lastStore, initsSinceClose, returned>>
    /\ \E r \in ProbeOutcomes :
         /\ att' = [att EXCEPT ![t] =
                      Probed([@ EXCEPT !.strat = @ \cup {"instance"},
                                       !.firstProbe = FirstOutcome(r),
                                       !.got200 = (r = "200")])]
         /\ IF r = "OtherError"
            THEN SetupFail(t, "RequestException")
            ELSE /\ pc' = [pc EXCEPT ![t] = "inst_spawn"]
                 /\ UNCHANGED <<ret, doneLog>>

\* _setup_browser_with_instance, lines 146-163: the first probe of the debug endpoint.
InstanceProbe(t) ==
    /\ At(t, "inst_probe1")
    /\ UNCHANGED <<config, machine, mgr, world, op, loc, pre, raced,
                   calls, budget, destroyed, lastStore, initsSinceClose, returned>>
    /\ IF ~TruthyStr(config.chrome_instance_path)
       THEN /\ att' = [att EXCEPT ![t].strat = @ \cup {"instance"}]
            /\ SetupFail(t, "ValueError")
       ELSE \E r \in ProbeOutcomes :
              /\ att' = [att EXCEPT ![t] =
                           Probed([@ EXCEPT !.strat = @ \cup {"instance"},
                                            !.firstProbe = FirstOutcome(r),
                                            !.got200 = (r = "200")])]
              /\ CASE r = "200" ->
                          /\ pc' = [pc EXCEPT ![t] = "inst_attach1"]
                          /\ UNCHANGED <<ret, doneLog>>
                     [] r = "OtherError" -> SetupFail(t, "RequestException")
                     [] OTHER ->
                          /\ pc' = [pc EXCEPT ![t] = "inst_spawn"]
                          /\ UNCHANGED <<ret, doneLog>>

\* _setup_browser_with_instance, lines 157-161: attach to the instance found running.
InstanceAttachExisting(t) == AttachLocal(t, "inst_attach1", "PlaywrightError")

\* _setup_browser_with_instance, lines 165-174: subprocess.Popen of the executable.
InstanceSpawn(t) ==
    /\ At(t, "inst_spawn")
    /\ UNCHANGED <<config, machine, mgr, world, op, pre, raced,
                   calls, budget, destroyed, lastStore, initsSinceClose, returned>>
    /\ \/ /\ att' = [att EXCEPT ![t] = Spawned(@)]
          /\ loc' = [loc EXCEPT ![t].i = 0]
          /\ pc' = [pc EXCEPT ![t] = "inst_poll"]
          /\ UNCHANGED <<ret, doneLog>>
       \/ /\ UNCHANGED <<att, loc>>
          /\ SetupFail(t, "OSError")

\* InstancePoll without the break: a 200 response is followed by the sleep and
\* the next iteration.
InstancePollNoBreak(t) ==
    /\ At(t, "inst_poll")
    /\ loc[t].i < InstancePollBudget
    /\ UNCHANGED <<config, machine, mgr, world, op, loc, pre, raced,
                   calls, budget, destroyed, lastStore, initsSinceClose, returned>>
    /\ \E r \in ProbeOutcomes :
         CASE r = "200" ->
                /\ att' = [att EXCEPT ![t] = Got200(Probed(@))]
                /\ pc' = [pc EXCEPT ![t] = "inst_sleep"]
                /\ UNCHANGED <<ret, doneLog>>
           [] r = "OtherError" ->
                /\ att' = [att EXCEPT ![t] = Probed(@)]
                /\ SetupFail(t, "RequestException")
           [] OTHER ->
                /\ att' = [att EXCEPT ![t] = Probed(@)]
                /\ pc' = [pc EXCEPT ![t] = "inst_sleep"]
                /\ UNCHANGED <<ret, doneLog>>

\* _setup_browser_with_instance, lines 177-183: one probe of the polling loop.
InstancePoll(t) ==
    /\ At(t, "inst_poll")
    /\ loc[t].i < InstancePollBudget
    /\ UNCHANGED <<config, machine, mgr, world, op, loc, pre, raced,
                   calls, budget, destroyed, lastStore, initsSinceClose, returned>>
    /\ \E r \in ProbeOutcomes :
         CASE r = "200" ->
                /\ att' = [att EXCEPT ![t] = Got200(Probed(@))]
                /\ pc' = [pc EXCEPT ![t] = "inst_attach2"]
                /\ UNCHANGED <<ret, doneLog>>
           [] r = "OtherError" ->
                /\ att' = [att EXCEPT ![t] = Probed(@)]
                /\ SetupFail(t, "RequestException")
           [] OTHER ->
                /\ att' = [att EXCEPT ![t] = Probed(@)]
                /\ pc' = [pc EXCEPT ![t] = "inst_sleep"]
                /\ UNCHANGED <<ret, doneLog>>

\* _setup_browser_with_instance, line 184: await asyncio.sleep(1), then the next
\* iteration, or the end of the loop after the last one.
InstanceSleep(t) ==
    /\ At(t, "inst_sleep")
    /\ UNCHANGED <<config, machine, mgr, world, op, ret, pre, raced, hist>>
    /\ att' = [att EXCEPT ![t] = Slept(@)]
    /\ loc' = [loc EXCEPT ![t].i = @ + 1]
    /\ pc' = [pc EXCEPT ![t] = IF loc[t].i + 1 < InstancePollBudget
                                THEN "inst_poll" ELSE "inst_attach2"]

\* InstanceAttachSpawned raising the engine's own error instead of the RuntimeError.
InstanceAttachSpawnedUnwrapped(t) == AttachLocal(t, "inst_attach2", "PlaywrightError")

\* _setup_browser_with_instance, lines 187-197: the attach after the polling loop;
\* any failure becomes the RuntimeError asking to close all existing instances.
InstanceAttachSpawned(t) == AttachLocal(t, "inst_attach2", "RuntimeError")

\* ------------------------------------------------------------ _get_edge_path

\* The first path of q that os.path.exists, or the not-found error.
FirstExisting(q, existing) ==
    IF \E k \in 1..Len(q) : q[k] \in existing
    THEN q[CHOOSE k \in 1..Len(q) :
             q[k] \in existing /\ \A j \in 1..(k - 1) : q[j] \notin existing]
    ELSE "FileNotFoundError"

\* _get_edge_path, lines 398-430: the path returned, or the name of the error raised.
GetEdgePath(system, existing) ==
    CASE system = "Windows" -> FirstExisting(WindowsPaths, existing)
      [] system = "Darwin"  -> DarwinPath
      [] system = "Linux"   -> FirstExisting(LinuxPaths, existing)
      [] OTHER              -> "OSError"

IsError(x) == x \in {"FileNotFoundError", "OSError"}

\* ---------------------------------------------------- _setup_standard_browser

\* _setup_standard_browser, lines 260-298 and 316-319: up to the first awaited call.
SetupStandard(t) ==
    /\ At(t, "std")
    /\ UNCHANGED <<config, machine, playwright, playwright_browser, browser_context, engines,
                   browsers, contexts, op, pre, raced,
                   calls, budget, destroyed, lastStore, initsSinceClose, returned>>
    /\ att' = [att EXCEPT ![t].strat = @ \cup {"standard"}]
    /\ IF config.browser_type # "msedge"
       THEN /\ pc' = [pc EXCEPT ![t] = "launch"]
            /\ UNCHANGED <<temp_dir, tempdirs, loc, ret, doneLog>>
       ELSE IF config.use_existing_browser /\ TruthyStr(config.user_data_dir)
       THEN /\ pc' = [pc EXCEPT ![t] = "edge_probe1"]
            /\ UNCHANGED <<temp_dir, tempdirs, loc, ret, doneLog>>
       ELSE LET edge_path == GetEdgePath(machine.system, machine.existing) IN
              IF IsError(edge_path)
              THEN /\ SetupFail(t, edge_path)
                   /\ loc' = [loc EXCEPT ![t].edge_path = edge_path]
                   /\ UNCHANGED <<temp_dir, tempdirs>>
              ELSE /\ tempdirs' = Append(tempdirs, 0)
                   /\ loc' = [loc EXCEPT ![t].tmp = Len(tempdirs) + 1,
                                         ![t].edge_path = edge_path]
                   /\ UNCHANGED <<ret, doneLog>>
                   /\ IF TruthyStr(config.user_data_dir)
                      THEN /\ temp_dir' = Len(tempdirs) + 1
                           /\ pc' = [pc EXCEPT ![t] = "edge_launch_profile"]
                      ELSE /\ UNCHANGED temp_dir
                           /\ pc' = [pc EXCEPT ![t] = "edge_launch_tmp"]

\* _setup_standard_browser, lines 335-342: launch of a non-Edge browser kind.
LaunchStandard(t) ==
    /\ At(t, "launch")
    /\ UNCHANGED <<config, machine, mgr, engines, contexts, tempdirs, op, pre, raced,
                   calls, budget, destroyed, lastStore, initsSinceClose, returned>>
    /\ att' = [att EXCEPT ![t].launch = @ + 1]
    /\ \/ /\ browsers' = Append(browsers,
                             Launched(t, "launch", NoneStr, StandardArgs(config)))
          /\ SetupDone(t, Len(browsers) + 1)
       \/ /\ SetupFail(t, "PlaywrightError")
          /\ UNCHANGED <<browsers, loc>>

\* _setup_standard_browser, lines 299-307: launch of Edge in the with-profile path.
EdgeLaunchProfile(t) ==
    /\ At(t, "edge_launch_profile")
    /\ UNCHANGED <<config, machine, mgr, engines, contexts, tempdirs, op, pre, raced,
                   calls, budget, destroyed, lastStore, initsSinceClose, returned>>
    /\ att' = [att EXCEPT ![t].launch = @ + 1]
    /\ \/ /\ browsers' = Append(browsers,
                             Launched(t, "edge_profile", loc[t].edge_path,
                                      EdgeProfileArgs(config)))
          /\ loc' = [loc EXCEPT ![t].br = Len(browsers) + 1]
          /\ pc' = [pc EXCEPT ![t] = "edge_new_context"]
          /\ UNCHANGED <<ret, doneLog>>
       \/ /\ SetupFail(t, "PlaywrightError")
          /\ UNCHANGED <<browsers, loc>>

\* _setup_standard_browser, lines 310-315: the context of the with-profile path.
EdgeNewContext(t) ==
    /\ At(t, "edge_new_context")
    /\ UNCHANGED <<config, machine, playwright, playwright_browser, temp_dir, engines, browsers,
                   tempdirs, op, loc, att, pre, raced,
                   calls, budget, destroyed, lastStore, initsSinceClose, returned>>
    /\ \/ /\ contexts' = Append(contexts, "open")
          /\ browser_context' = Len(contexts) + 1
          /\ pc' = [pc EXCEPT ![t] = "store"]
          /\ UNCHANGED <<ret, doneLog>>
       \/ /\ SetupFail(t, "PlaywrightError")
          /\ UNCHANGED <<contexts, browser_context>>

\* EdgeLaunchTmp going on to open a context, as the with-profile branch does.
EdgeLaunchTmpOpensContext(t) ==
    /\ At(t, "edge_launch_tmp")
    /\ UNCHANGED <<config, machine, playwright, playwright_browser, browser_context,
                   engines, contexts, tempdirs, op, pre, raced,
                   calls, budget, destroyed, lastStore, initsSinceClose, returned>>
    /\ att' = [att EXCEPT ![t].launch = @ + 1]
    /\ \/ /\ browsers' = Append(browsers,
                             Launched(t, "edge_tmp", loc[t].edge_path,
                                      EdgeTmpArgs(config, loc[t].tmp)))
          /\ temp_dir' = loc[t].tmp
          /\ loc' = [loc EXCEPT ![t].br = Len(browsers) + 1]
          /\ pc' = [pc EXCEPT ![t] = "edge_new_context"]
          /\ UNCHANGED <<ret, doneLog>>
       \/ /\ SetupFail(t, "PlaywrightError")
          /\ UNCHANGED <<browsers, loc, temp_dir>>

\* _setup_standard_browser, lines 321-332: launch of Edge on a disposable profile;
\* the temporary directory is recorded only after the launch has returned.
EdgeLaunchTmp(t) ==
    /\ At(t, "edge_launch_tmp")
    /\ UNCHANGED <<config, machine, playwright, playwright_browser, browser_context, engines,
                   contexts, tempdirs, op, pre, raced,
                   calls, budget, destroyed, lastStore, initsSinceClose, returned>>
    /\ att' = [att EXCEPT ![t].launch = @ + 1]
    /\ \/ /\ browsers' = Append(browsers,
                             Launched(t, "edge_tmp", loc[t].edge_path,
                                      EdgeTmpArgs(config, loc[t].tmp)))
          /\ temp_dir' = loc[t].tmp
          /\ SetupDone(t, Len(browsers) + 1)
       \/ /\ SetupFail(t, "PlaywrightError")
          /\ UNCHANGED <<browsers, loc, temp_dir>>

\* ---------------------------------------------------- _connect_to_existing_edge

\* _connect_to_existing_edge, lines 206-217: the first probe.
EdgeProbe(t) ==
    /\ At(t, "edge_probe1")
    /\ UNCHANGED <<config, machine, mgr, world, op, loc, pre, raced,
                   calls, budget, destroyed, lastStore, initsSinceClose, returned>>
    /\ \E r \in ProbeOutcomes :
         /\ att' = [att EXCEPT ![t] = Probed([@ EXCEPT !.firstProbe = FirstOutcome(r),
                                                      !.got200 = (r = "200")])]
         /\ CASE r = "200" ->
                     /\ pc' = [pc EXCEPT ![t] = "edge_attach1"]
                     /\ UNCHANGED <<ret, doneLog>>
                [] r = "OtherError" -> SetupFail(t, "RequestException")
                [] OTHER ->
                     /\ pc' = [pc EXCEPT ![t] = "edge_spawn"]
                     /\ UNCHANGED <<ret, doneLog>>

\* _connect_to_existing_edge, lines 210-214: attach to the instance found running.
EdgeAttachExisting(t) == AttachLocal(t, "edge_attach1", "PlaywrightError")

\* _connect_to_existing_edge, lines 220-235: executable discovery and Popen.
EdgeSpawn(t) ==
    /\ At(t, "edge_spawn")
    /\ UNCHANGED <<config, machine, mgr, world, op, pre, raced,
                   calls, budget, destroyed, lastStore, initsSinceClose, returned>>
    /\ LET edge_path == GetEdgePath(machine.system, machine.existing) IN
         IF IsError(edge_path)
         THEN /\ SetupFail(t, edge_path)
              /\ loc' = [loc EXCEPT ![t].edge_path = edge_path]
              /\ UNCHANGED att
         ELSE \/ /\ att' = [att EXCEPT ![t] = Spawned(@)]
                 /\ loc' = [loc EXCEPT ![t].i = 0, ![t].edge_path = edge_path]
                 /\ pc' = [pc EXCEPT ![t] = "edge_poll"]
                 /\ UNCHANGED <<ret, doneLog>>
              \/ /\ UNCHANGED att
                 /\ loc' = [loc EXCEPT ![t].edge_path = edge_path]
                 /\ SetupFail(t, "OSError")

\* _connect_to_existing_edge, lines 239-246: one iteration of the polling loop.
\* time.sleep(1) runs only in the ConnectionError handler.
EdgePoll(t) ==
    /\ At(t, "edge_poll")
    /\ loc[t].i < EdgePollBudget
    /\ UNCHANGED <<config, machine, mgr, world, op, pre, raced,
                   calls, budget, destroyed, lastStore, initsSinceClose, returned>>
    /\ \E r \in ProbeOutcomes :
         CASE r = "200" ->
                /\ att' = [att EXCEPT ![t] = Got200(Probed(@))]
                /\ pc' = [pc EXCEPT ![t] = "edge_attach2"]
                /\ UNCHANGED <<loc, ret, doneLog>>
           [] r = "OtherError" ->
                /\ att' = [att EXCEPT ![t] = Probed(@)]
                /\ SetupFail(t, "RequestException")
                /\ UNCHANGED loc
           [] r = "ConnectionError" ->
                /\ att' = [att EXCEPT ![t] = Slept(Probed(@))]
                /\ loc' = [loc EXCEPT ![t].i = @ + 1]
                /\ UNCHANGED <<pc, ret, doneLog>>
           [] OTHER ->
                /\ att' = [att EXCEPT ![t] = Probed(@)]
                /\ loc' = [loc EXCEPT ![t].i = @ + 1]
                /\ UNCHANGED <<pc, ret, doneLog>>

\* EdgePollTimeout going on to the attach, as the local-executable loop does.
EdgePollFallsThrough(t) ==
    /\ At(t, "edge_poll")
    /\ loc[t].i = EdgePollBudget
    /\ UNCHANGED <<config, machine, mgr, world, op, loc, att, pre, raced,
                   calls, budget, destroyed, lastStore, initsSinceClose, returned>>
    /\ pc' = [pc EXCEPT ![t] = "edge_attach2"]
    /\ UNCHANGED <<ret, doneLog>>

\* _connect_to_existing_edge, lines 247-248: the loop ended without a break.
EdgePollTimeout(t) ==
    /\ At(t, "edge_poll")
    /\ loc[t].i = EdgePollBudget
    /\ UNCHANGED <<config, machine, mgr, world, op, loc, att, pre, raced,
                   calls, budget, destroyed, lastStore, initsSinceClose, returned>>
    /\ SetupFail(t, "TimeoutError")

\* _connect_to_existing_edge, lines 251-256: attach after the polling loop.
EdgeAttachSpawned(t) == AttachLocal(t, "edge_attach2", "PlaywrightError")

\* ------------------------------------------------------------------- _init

\* Store keeping a pair that is already recorded: the first initialization wins.
StoreIfAbsent(t) ==
    /\ At(t, "store")
    /\ playwright' = IF playwright_browser = None THEN loc[t].pw ELSE playwright
    /\ playwright_browser' = IF playwright_browser = None THEN loc[t].br
                              ELSE playwright_browser
    /\ lastStore' = t
    /\ initsSinceClose' = initsSinceClose + 1
    /\ returned' = returned \cup {playwright_browser'}
    /\ UNCHANGED <<config, machine, browser_context, temp_dir, world, op, loc, att, pre, raced,
                   calls, budget, destroyed>>
    /\ Return(t, playwright_browser')

\* _init, lines 123-126: record the pair and return the browser handle.
Store(t) ==
    /\ At(t, "store")
    /\ playwright' = loc[t].pw
    /\ playwright_browser' = loc[t].br
    /\ lastStore' = t
    /\ initsSinceClose' = initsSinceClose + 1
    /\ returned' = returned \cup {loc[t].br}
    /\ UNCHANGED <<config, machine, browser_context, temp_dir, world, op, loc, att, pre, raced,
                   calls, budget, destroyed>>
    /\ Return(t, loc[t].br)

\* -------------------------------------------------------------------- close

\* close, line 462: the call starts.
Close(t) ==
    /\ At(t, "idle")
    /\ MayStart(t)
    /\ calls < budget
    /\ calls' = calls + 1
    /\ op' = [op EXCEPT ![t] = "close"]
    /\ loc' = [loc EXCEPT ![t] = NoLocals]
    /\ att' = [att EXCEPT ![t] = NoAttempts]
    /\ pre' = [pre EXCEPT ![t] = Snapshot]
    /\ raced' = [raced EXCEPT ![t] = FALSE]
    /\ pc' = [pc EXCEPT ![t] = "c_ctx"]
    /\ initsSinceClose' = 0
    /\ returned' = {}
    /\ UNCHANGED <<config, machine, mgr, world, ret, budget, destroyed, doneLog, lastStore>>

\* The position close continues at when a guarded step raises: the outer
\* `except Exception` (lines 489-490) logs, then the finally block runs.
CloseExcept == "c_finally"

\* close, lines 465-467: the keep-alive test and the test of the context handle.
CloseContextCheck(t) ==
    /\ At(t, "c_ctx")
    /\ UNCHANGED <<config, machine, mgr, world, op, att, ret, pre, raced, hist>>
    /\ IF config.force_keep_alive
       THEN /\ pc' = [pc EXCEPT ![t] = "c_finally"]
            /\ UNCHANGED loc
       ELSE IF Truthy(browser_context)
       THEN /\ pc' = [pc EXCEPT ![t] = "c_ctx_wait"]
            /\ loc' = [loc EXCEPT ![t].target = browser_context]
       ELSE /\ pc' = [pc EXCEPT ![t] = "c_browser"]
            /\ UNCHANGED loc

\* close, lines 468-469: await self.browser_context.close(), then clear the handle.
CloseContext(t) ==
    /\ At(t, "c_ctx_wait")
    /\ UNCHANGED <<config, machine, playwright, playwright_browser, temp_dir, engines, browsers,
                   tempdirs, op, loc, ret, pre, raced, hist>>
    /\ \/ /\ contexts' = [contexts EXCEPT ![loc[t].target] = "closed"]
          /\ att' = [att EXCEPT ![t].ctxClose = @ + 1]
          /\ browser_context' = None
          /\ pc' = [pc EXCEPT ![t] = "c_browser"]
       \/ /\ att' = [att EXCEPT ![t].ctxClose = @ + 1, ![t].raised = @ \cup {"context"}]
          /\ pc' = [pc EXCEPT ![t] = CloseExcept]
          /\ UNCHANGED <<contexts, browser_context>>

\* CloseBrowserCheck with the engine stopped first: the browser step is skipped
\* over to the engine step.
CloseBrowserCheckStopsFirst(t) ==
    /\ At(t, "c_browser")
    /\ UNCHANGED <<config, machine, mgr, world, op, loc, att, ret, pre, raced, hist>>
    /\ pc' = [pc EXCEPT ![t] = "c_stop"]

\* close, line 472: the test of the browser handle.
CloseBrowserCheck(t) ==
    /\ At(t, "c_browser")
    /\ UNCHANGED <<config, machine, mgr, world, op, ret, pre, raced, hist>>
    /\ IF playwright_browser = Deleted
       THEN /\ pc' = [pc EXCEPT ![t] = CloseExcept]
            /\ att' = [att EXCEPT ![t].raised = @ \cup {"AttributeError"}]
            /\ UNCHANGED loc
       ELSE IF Truthy(playwright_browser)
       THEN /\ pc' = [pc EXCEPT ![t] = "c_browser_wait"]
            /\ loc' = [loc EXCEPT ![t].target = playwright_browser]
            /\ UNCHANGED att
       ELSE /\ pc' = [pc EXCEPT ![t] = "c_stop"]
            /\ UNCHANGED <<loc, att>>

\* close, lines 473-474: await self.playwright_browser.close(), then del the attribute.
CloseBrowser(t) ==
    /\ At(t, "c_browser_wait")
    /\ UNCHANGED <<config, machine, playwright, browser_context, temp_dir, engines, contexts,
                   tempdirs, op, loc, ret, pre, raced, hist>>
    /\ \/ /\ browsers' = [browsers EXCEPT ![loc[t].target].st = "closed"]
          /\ IF playwright_browser = Deleted
             THEN /\ att' = [att EXCEPT ![t].brClose = @ + 1,
                                        ![t].raised = @ \cup {"AttributeError"}]
                  /\ pc' = [pc EXCEPT ![t] = CloseExcept]
                  /\ UNCHANGED playwright_browser
             ELSE /\ att' = [att EXCEPT ![t].brClose = @ + 1]
                  /\ playwright_browser' = Deleted
                  /\ pc' = [pc EXCEPT ![t] = "c_stop"]
       \/ /\ att' = [att EXCEPT ![t].brClose = @ + 1, ![t].raised = @ \cup {"browser"}]
          /\ pc' = [pc EXCEPT ![t] = CloseExcept]
          /\ UNCHANGED <<browsers, playwright_browser>>

\* close, line 477: the test of the engine handle.
CloseStopCheck(t) ==
    /\ At(t, "c_stop")
    /\ UNCHANGED <<config, machine, mgr, world, op, ret, pre, raced, hist>>
    /\ IF playwright = Deleted
       THEN /\ pc' = [pc EXCEPT ![t] = CloseExcept]
            /\ att' = [att EXCEPT ![t].raised = @ \cup {"AttributeError"}]
            /\ UNCHANGED loc
       ELSE IF Truthy(playwright)
       THEN /\ pc' = [pc EXCEPT ![t] = "c_stop_wait"]
            /\ loc' = [loc EXCEPT ![t].target = playwright]
            /\ UNCHANGED att
       ELSE /\ pc' = [pc EXCEPT ![t] = "c_tmp"]
            /\ UNCHANGED <<loc, att>>

\* close, lines 478-479: await self.playwright.stop(), then del the attribute.
CloseStop(t) ==
    /\ At(t, "c_stop_wait")
    /\ UNCHANGED <<config, machine, playwright_browser, browser_context, temp_dir, browsers,
                   contexts, tempdirs, op, loc, ret, pre, raced, hist>>
    /\ \/ /\ engines' = [engines EXCEPT ![loc[t].target] = "stopped"]
          /\ IF playwright = Deleted
             THEN /\ att' = [att EXCEPT ![t].stop = @ + 1,
                                        ![t].raised = @ \cup {"AttributeError"}]
                  /\ pc' = [pc EXCEPT ![t] = CloseExcept]
                  /\ UNCHANGED playwright
             ELSE /\ att' = [att EXCEPT ![t].stop = @ + 1]
                  /\ playwright' = Deleted
                  /\ pc' = [pc EXCEPT ![t] = "c_tmp"]
       \/ /\ att' = [att EXCEPT ![t].stop = @ + 1, ![t].raised = @ \cup {"engine"}]
          /\ pc' = [pc EXCEPT ![t] = CloseExcept]
          /\ UNCHANGED <<engines, playwright>>

\* close, lines 482-487: the temporary directory's cleanup, in its own try/except.
CloseTempDir(t) ==
    /\ At(t, "c_tmp")
    /\ pc' = [pc EXCEPT ![t] = "c_finally"]
    /\ UNCHANGED <<config, machine, playwright, playwright_browser, browser_context, engines,
                   browsers, contexts, op, loc, ret, pre, raced, hist>>
    /\ IF Truthy(temp_dir)
       THEN /\ tempdirs' = [tempdirs EXCEPT ![temp_dir] = @ + 1]
            /\ temp_dir' = None
            /\ \/ att' = [att EXCEPT ![t].cleanup = @ + 1]
               \/ att' = [att EXCEPT ![t].cleanup = @ + 1, ![t].raised = @ \cup {"temp_dir"}]
       ELSE UNCHANGED <<tempdirs, temp_dir, att>>

\* CloseFinally without the resets of the finally block.
CloseFinallyNoReset(t) ==
    /\ At(t, "c_finally")
    /\ UNCHANGED <<config, machine, mgr, world, op, loc, att, pre, raced,
                   calls, budget, destroyed, lastStore, initsSinceClose, returned>>
    /\ Return(t, None)

\* CloseFinally resetting only the context and the temporary directory.
CloseFinallyPartial(t) ==
    /\ At(t, "c_finally")
    /\ browser_context' = None
    /\ temp_dir' = None
    /\ playwright_browser' = IF playwright_browser = Deleted THEN None
                              ELSE playwright_browser
    /\ playwright' = IF playwright = Deleted THEN None ELSE playwright
    /\ UNCHANGED <<config, machine, world, op, loc, att, pre, raced,
                   calls, budget, destroyed, lastStore, initsSinceClose, returned>>
    /\ Return(t, None)

\* close, lines 491-497: the finally block resets the four handles; close returns.
CloseFinally(t) ==
    /\ At(t, "c_finally")
    /\ browser_context' = None
    /\ playwright_browser' = None
    /\ playwright' = None
    /\ temp_dir' = None
    /\ UNCHANGED <<config, machine, world, op, loc, att, pre, raced,
                   calls, budget, destroyed, lastStore, initsSinceClose, returned>>
    /\ Return(t, None)

\* __del__, line 502: `self.playwright_browser or self.playwright or
\* self.browser_context or self.temp_dir`, evaluated left to right; reading a
\* deleted attribute raises AttributeError.
DelTest ==
    LET fields == <<playwright_browser, playwright, browser_context, temp_dir>>
        first(P(_)) == IF \E k \in 1..4 : P(fields[k])
                       THEN CHOOSE k \in 1..4 :
                              P(fields[k]) /\ \A j \in 1..(k - 1) : ~P(fields[j])
                       ELSE 5
        live(h) == Truthy(h)
        gone(h) == h = Deleted IN
    IF first(gone) < first(live) THEN "AttributeError"
    ELSE IF first(live) < 5 THEN "live"
    ELSE "none"

\* __del__, lines 499-509: the manager is destroyed once no caller holds it (no
\* call is running).  With a handle live, asyncio.get_running_loop() returns the
\* running loop, on which close() is scheduled as a task, or raises RuntimeError
\* when no loop is running; `except Exception` swallows whatever was raised.
Del(t) ==
    /\ At(t, "idle")
    /\ t = 1
    /\ \A u \in Tasks : pc[u] = "idle"
    /\ destroyed = "no"
    /\ calls < budget
    /\ calls' = calls + 1
    /\ UNCHANGED <<config, machine, mgr, world, loc, ret, budget, doneLog, lastStore>>
    /\ att' = [att EXCEPT ![t] = NoAttempts]
    /\ pre' = [pre EXCEPT ![t] = Snapshot]
    /\ raced' = [raced EXCEPT ![t] = FALSE]
    /\ CASE DelTest = "AttributeError" ->
               /\ destroyed' = "swallowed"
               /\ op' = [op EXCEPT ![t] = "del"]
               /\ UNCHANGED <<pc, initsSinceClose, returned>>
         [] DelTest = "none" ->
               /\ destroyed' = "skipped"
               /\ op' = [op EXCEPT ![t] = "del"]
               /\ UNCHANGED <<pc, initsSinceClose, returned>>
         [] OTHER ->
               \E loop_running \in BOOLEAN :
                 IF loop_running
                 THEN /\ destroyed' = "scheduled"
                      /\ op' = [op EXCEPT ![t] = "close"]
                      /\ pc' = [pc EXCEPT ![t] = "c_ctx"]
                      /\ initsSinceClose' = 0
                      /\ returned' = {}
                 ELSE /\ destroyed' = "swallowed"
                      /\ op' = [op EXCEPT ![t] = "del"]
                      /\ UNCHANGED <<pc, initsSinceClose, returned>>

\* The caller takes the result: the frame of the call, with its locals, is gone.
Finish(t) ==
    /\ At(t, "done")
    /\ pc' = [pc EXCEPT ![t] = "idle"]
    /\ loc' = [loc EXCEPT ![t] = NoLocals]
    /\ att' = [att EXCEPT ![t] = NoAttempts]
    /\ pre' = [pre EXCEPT ![t] = [playwright |-> None, playwright_browser |-> None,
                                   browser_context |-> None, temp_dir |-> None]]
    /\ UNCHANGED <<config, machine, mgr, world, op, ret, raced, hist>>

\* ------------------------------------------------------------ specifications

\* One step of coroutine t.
Step(t) ==
    \/ NewContext(t)
    \/ GetPlaywrightBrowser(t)
    \/ StartPlaywright(t)
    \/ SetupBrowser(t)
    \/ SetupCdp(t)
    \/ SetupWss(t)
    \/ InstanceProbe(t)
    \/ InstanceAttachExisting(t)
    \/ InstanceSpawn(t)
    \/ InstancePoll(t)
    \/ InstanceSleep(t)
    \/ InstanceAttachSpawned(t)
    \/ SetupStandard(t)
    \/ LaunchStandard(t)
    \/ EdgeLaunchProfile(t)
    \/ EdgeNewContext(t)
    \/ EdgeLaunchTmp(t)
    \/ EdgeProbe(t)
    \/ EdgeAttachExisting(t)
    \/ EdgeSpawn(t)
    \/ EdgePoll(t)
    \/ EdgePollTimeout(t)
    \/ EdgeAttachSpawned(t)
    \/ Store(t)
    \/ Close(t)
    \/ CloseContextCheck(t)
    \/ CloseContext(t)
    \/ CloseBrowserCheck(t)
    \/ CloseBrowser(t)
    \/ CloseStopCheck(t)
    \/ CloseStop(t)
    \/ CloseTempDir(t)
    \/ CloseFinally(t)
    \/ Del(t)
    \/ Finish(t)

\* Sequential use: one caller, each call runs to completion before the next.
Next == Step(1)

Spec == Init /\ [][Next]_vars

\* Concurrent use: the callers are coroutines of one event loop, interleaved at
\* their awaits.
NextConc == \E t \in Tasks : Step(t)

\* The configurations in which every field the selected strategy never reads is at
\* its default: one representative per strategy and keep-alive setting.
Canonical(cfg) ==
    LET s == Strategy(cfg) IN
    /\ s = "cdp" => cfg.wss_url = NoneStr
    /\ s \in {"cdp", "wss"} => cfg.chrome_instance_path = NoneStr
    /\ s # "std" => cfg.browser_type = "chromium"
    /\ cfg.browser_type # "msedge" =>
          cfg.user_data_dir = NoneStr /\ ~cfg.use_existing_browser
    /\ cfg.disable_security

\* One representative machine, on which _get_edge_path returns a path.
CanonicalMachines == { [system |-> "Linux", existing |-> {LinuxPaths[1]}] }

InitConc ==
    /\ InitWith(MaxConcCalls)
    /\ Canonical(config)
    /\ UsesEdgePath(config) => machine \in CanonicalMachines

SpecConc == InitConc /\ [][NextConc]_vars

\* Concurrent use with room for an initialization followed by two racing calls.
InitRace ==
    /\ InitWith(MaxRaceCalls)
    /\ Canonical(config)
    /\ UsesEdgePath(config) => machine \in CanonicalMachines

SpecRace == InitRace /\ [][NextConc]_vars

\* ------------------------------------------------------------------- claims

\* The engine of the call of t was started, so strategy selection was reached.
EngineStarted(t) == loc[t].pw # None

\* A call of get_playwright_browser by t has completed.
GetDone(t) == pc[t] = "done" /\ op[t] = "get"

\* A call of close by t has completed.
CloseDone(t) == pc[t] = "done" /\ op[t] = "close"

\* The strategy the priority order CDP, WebSocket, local executable, standard
\* launch asks for.
Expected(cfg) ==
    IF TruthyStr(cfg.cdp_url) THEN "cdp"
    ELSE IF TruthyStr(cfg.wss_url) THEN "wss"
    ELSE IF TruthyStr(cfg.chrome_instance_path) THEN "instance"
    ELSE "standard"

\* C1: with cdp_url set, whatever the other fields, an initialization never
\* attempts a WebSocket connect, a probe, a spawn or a launch, and never more than
\* one CDP connection; once it has ended (by returning or by raising) it has
\* attempted exactly one CDP connection, to the configured endpoint.
C1_CdpOnly ==
    \A t \in Tasks :
      (op[t] = "get" /\ TruthyStr(config.cdp_url)) =>
        /\ att[t].wss = 0 /\ att[t].probe = 0 /\ att[t].spawn = 0
        /\ att[t].launch = 0 /\ att[t].cdpLocal = 0
        /\ att[t].cdpCfg <= 1
        /\ (pc[t] \in {"store", "done"} /\ EngineStarted(t)) => att[t].cdpCfg = 1
        /\ (pc[t] = "store") =>
              /\ browsers[loc[t].br].via = "cdp"
              /\ browsers[loc[t].br].target = config.cdp_url

\* C1 witness: the CDP connection failed although a WebSocket endpoint, an
\* executable path, the msedge kind and a profile were configured too.
C1_Witness ==
    \E t \in Tasks :
      /\ GetDone(t) /\ EngineStarted(t)
      /\ ret[t].kind = "raise" /\ ret[t].exc = "PlaywrightError"
      /\ TruthyStr(config.cdp_url) /\ TruthyStr(config.wss_url)
      /\ TruthyStr(config.chrome_instance_path) /\ config.browser_type = "msedge"
      /\ TruthyStr(config.user_data_dir) /\ config.use_existing_browser
      /\ att[t].cdpCfg = 1

\* C2: an initialization enters no strategy but the one the priority order asks
\* for, and has entered exactly that one when it ends; with wss_url set and
\* cdp_url absent it makes the WebSocket connect (once) and no other attempt, even
\* with chrome_instance_path set.
C2_OneStrategyByPriority ==
    \A t \in Tasks :
      op[t] = "get" =>
        /\ att[t].strat \subseteq {Expected(config)}
        /\ (pc[t] \in {"store", "done"} /\ EngineStarted(t)) =>
              att[t].strat = {Expected(config)}
        /\ (TruthyStr(config.wss_url) /\ ~TruthyStr(config.cdp_url)) =>
              /\ att[t].cdpCfg = 0 /\ att[t].cdpLocal = 0 /\ att[t].probe = 0
              /\ att[t].spawn = 0 /\ att[t].launch = 0 /\ att[t].wss <= 1
              /\ (pc[t] \in {"store", "done"} /\ EngineStarted(t)) => att[t].wss = 1

\* C2 witness: a WebSocket initialization has returned with an executable path
\* configured as well.
C2_Witness ==
    \E t \in Tasks :
      /\ GetDone(t) /\ EngineStarted(t) /\ ret[t].kind = "ok"
      /\ TruthyStr(config.wss_url) /\ ~TruthyStr(config.cdp_url)
      /\ TruthyStr(config.chrome_instance_path)
      /\ att[t].wss = 1 /\ att[t].strat = {"wss"}

AllAbsent ==
    /\ playwright = None /\ playwright_browser = None
    /\ browser_context = None /\ temp_dir = None

\* C3: when close() has returned, the four handles are absent, whatever the
\* starting state and whichever close sub-steps raised.
C3_AllAbsentAfterClose == \A t \in Tasks : CloseDone(t) => AllAbsent

\* C3 witness: close has returned from a state with all four handles present, its
\* context close having raised.
C3_Witness ==
    \E t \in Tasks :
      /\ CloseDone(t)
      /\ Truthy(pre[t].playwright) /\ Truthy(pre[t].playwright_browser)
      /\ Truthy(pre[t].browser_context) /\ Truthy(pre[t].temp_dir)
      /\ "context" \in att[t].raised

NoTeardown(a) == a.ctxClose = 0 /\ a.brClose = 0 /\ a.stop = 0 /\ a.cleanup = 0

\* The call completed just before the last completed one was a close().
SecondCloseInARow ==
    /\ Len(doneLog) >= 2
    /\ doneLog[Len(doneLog)].op = "close"
    /\ doneLog[Len(doneLog) - 1].op = "close"

\* C4: the second of two close() calls in succession performs no teardown action,
\* changes no handle and does not raise, whether or not a sub-step of the first
\* call raised.
C4_SecondCloseNoOp ==
    \A t \in Tasks :
      (CloseDone(t) /\ SecondCloseInARow) =>
        /\ NoTeardown(att[t])
        /\ att[t].raised = {}
        /\ Snapshot = pre[t]
        /\ ret[t].kind = "ok"

\* C4 witness: a second close has returned after a first one in which a step raised.
C4_Witness ==
    \E t \in Tasks :
      /\ CloseDone(t) /\ SecondCloseInARow
      /\ doneLog[Len(doneLog) - 1].raised

\* C5: with force-keep-alive set, close() performs no teardown action and leaves
\* each of the four handles with the value it had before the call.
C5_KeepAliveLeavesHandles ==
    \A t \in Tasks :
      (CloseDone(t) /\ config.force_keep_alive) =>
        /\ NoTeardown(att[t])
        /\ Snapshot = pre[t]

\* The teardown steps close() ran are those whose handle was present at the call.
EveryStepRan(t) ==
    /\ Truthy(pre[t].browser_context) => att[t].ctxClose = 1
    /\ Truthy(pre[t].playwright_browser) => att[t].brClose = 1
    /\ Truthy(pre[t].playwright) => att[t].stop = 1
    /\ Truthy(pre[t].temp_dir) => att[t].cleanup = 1

\* C6: close() never raises, and a raising teardown step does not keep the later
\* steps whose handle is present from being executed.
C6_EveryStepGuarded ==
    \A t \in Tasks :
      (CloseDone(t) /\ ~config.force_keep_alive) =>
        /\ ret[t].kind = "ok"
        /\ EveryStepRan(t)

\* C7: the temporary directory recorded in temp_dir has had its cleanup invoked
\* exactly once when the next close() has returned (also when an earlier close
\* step raised), no directory is ever cleaned up twice, and close() does not
\* raise when the cleanup fails.  Stated for the managers whose close() tears
\* down (force-keep-alive not set).
C7_TempDirCleanedExactlyOnce ==
    /\ \A d \in DOMAIN tempdirs : tempdirs[d] <= 1
    /\ \A t \in Tasks :
         (CloseDone(t) /\ ~config.force_keep_alive /\ Truthy(pre[t].temp_dir)) =>
           /\ tempdirs[pre[t].temp_dir] = 1
           /\ ret[t].kind = "ok"

\* C8: under sequential use, at most one initialization succeeds between two
\* close() calls, a call that finds the handle present starts no engine and
\* returns it unchanged, and all calls return the one handle the manager holds.
C8_InitOnlyWhenAbsent ==
    /\ initsSinceClose <= 1
    /\ Cardinality(returned) <= 1
    /\ \A t \in Tasks :
         /\ (GetDone(t) /\ ret[t].kind = "ok") =>
               /\ ret[t].val = playwright_browser
               /\ returned = {playwright_browser}
         /\ (op[t] = "get" /\ pc[t] # "idle" /\ Truthy(pre[t].playwright_browser)) =>
               /\ pc[t] = "done"
               /\ ~EngineStarted(t)
               /\ ret[t].val = pre[t].playwright_browser
               /\ Snapshot = pre[t]

\* C8 witness: three calls in a row have returned, the last one from the cache.
C8_Witness ==
    \E t \in Tasks :
      /\ GetDone(t) /\ Truthy(pre[t].playwright_browser)
      /\ Len(doneLog) >= 3
      /\ \A k \in 1..3 : doneLog[k].op = "get" /\ doneLog[k].ok

\* Both callers ran an initialization that overlapped the other's, and both
\* have returned a handle.
BothRaced(t, u) ==
    /\ t # u
    /\ raced[t] /\ raced[u]
    /\ op[t] = "get" /\ op[u] = "get"
    /\ pc[t] \in {"done", "idle"} /\ pc[u] \in {"done", "idle"}
    /\ ret[t].kind = "ok" /\ ret[u].kind = "ok"

\* C9: two callers that both saw the handle absent before either stored each ran
\* an initialization of their own (two engines, two browsers), and the manager
\* holds the pair that was stored last.
C9_NoSingleFlight ==
    \A t, u \in Tasks :
      BothRaced(t, u) =>
        /\ ret[t].val # ret[u].val
        /\ browsers[ret[t].val].engine # browsers[ret[u].val].engine
        /\ lastStore \in {t, u}
        /\ playwright_browser = ret[lastStore].val
        /\ playwright = browsers[ret[lastStore].val].engine

\* C9 witness: two overlapping initializations have both returned.
C9_Witness ==
    \E t, u \in Tasks :
      /\ BothRaced(t, u)
      /\ Len(engines) = 2 /\ Len(browsers) = 2
      /\ engines[1] = "live" /\ engines[2] = "live"

\* C10: in the local-executable strategy, once the first probe has answered 200
\* the call spawns nothing and probes no more; it makes one CDP attach, to port
\* 9222, and no other attempt.
C10_ReuseWithoutSpawn ==
    \A t \in Tasks :
      (op[t] = "get" /\ att[t].strat = {"instance"} /\ att[t].firstProbe = "200") =>
        /\ att[t].spawn = 0 /\ att[t].probe = 1 /\ att[t].lastEv = "probe"
        /\ att[t].cdpCfg = 0 /\ att[t].wss = 0 /\ att[t].launch = 0
        /\ att[t].cdpLocal <= 1
        /\ pc[t] \in {"inst_attach1", "store", "done"}
        /\ pc[t] \in {"store", "done"} => att[t].cdpLocal = 1
        /\ pc[t] = "store" => browsers[loc[t].br].target = LocalEndpoint

\* C10 witness: a call has returned the browser it attached to after a first
\* probe that answered 200.
C10_Witness ==
    \E t \in Tasks :
      /\ GetDone(t) /\ ret[t].kind = "ok"
      /\ att[t].strat = {"instance"} /\ att[t].firstProbe = "200"
      /\ att[t].cdpLocal = 1 /\ att[t].spawn = 0

\* The call of t is in the local-executable strategy, has spawned the executable
\* and has used up the poll budget without a 200 response.
PollExhausted(t) ==
    /\ op[t] = "get" /\ att[t].strat = {"instance"}
    /\ att[t].spawn = 1 /\ loc[t].i = InstancePollBudget

\* C11 as stated: in the local-executable strategy, a call whose poll budget was
\* used up without a 200 response ends by raising a timeout error to the caller.
C11_TimeoutSurfaced ==
    \A t \in Tasks :
      (GetDone(t) /\ PollExhausted(t)) =>
        ret[t].kind = "raise" /\ ret[t].exc = "TimeoutError"

\* C11 amended: a call whose poll budget was used up without a 200 response makes
\* one CDP attach to port 9222; it returns that browser, or raises the RuntimeError
\* asking to close all existing instances; it attempts no other strategy.
C11_AttachAfterBudget ==
    \A t \in Tasks :
      PollExhausted(t) =>
        /\ pc[t] \in {"inst_attach2", "store", "done"}
        /\ att[t].probe = InstancePollBudget + 1
        /\ att[t].cdpCfg = 0 /\ att[t].wss = 0 /\ att[t].launch = 0
        /\ att[t].cdpLocal = (IF pc[t] = "inst_attach2" THEN 0 ELSE 1)
        /\ pc[t] = "done" =>
              \/ ret[t].kind = "ok" /\ browsers[ret[t].val].target = LocalEndpoint
              \/ ret[t].kind = "raise" /\ ret[t].exc = "RuntimeError"

\* C11 witness: the budget was used up, the attach failed and the RuntimeError
\* reached the caller.
C11_Witness ==
    \E t \in Tasks :
      /\ GetDone(t) /\ PollExhausted(t)
      /\ ret[t].kind = "raise" /\ ret[t].exc = "RuntimeError"
      /\ att[t].cdpLocal = 1

\* The call completed just before the current call of t was a failed
\* get_playwright_browser.
AfterFailedGet(t) ==
    LET k == IF pc[t] = "done" THEN Len(doneLog) - 1 ELSE Len(doneLog) IN
    /\ pc[t] # "idle"
    /\ k >= 1
    /\ doneLog[k].op = "get" /\ ~doneLog[k].ok

\* C12: a call whose selected strategy failed raises that failure, has entered no
\* strategy but the selected one, and leaves the engine handle and the browser
\* handle absent; the next get_playwright_browser finds the browser handle absent
\* and runs an initialization again.
C12_FailureNotRecorded ==
    \A t \in Tasks :
      /\ (GetDone(t) /\ ret[t].kind = "raise") =>
            /\ playwright = None /\ playwright_browser = None
            /\ ret[t].val = None
            /\ EngineStarted(t) =>
                  /\ att[t].strat = {Expected(config)}
                  /\ ret[t].exc # "EngineStartError"
      /\ (op[t] = "get" /\ AfterFailedGet(t)) =>
            /\ pre[t].playwright_browser = None
            /\ pc[t] \in InitPcs \cup {"done"}
            /\ pc[t] = "done" =>
                  (EngineStarted(t) \/ ret[t].exc = "EngineStartError")

\* C12 witness: after a call whose strategy failed, the next call has run a whole
\* initialization and returned a browser.
C12_Witness ==
    \E t \in Tasks :
      /\ GetDone(t) /\ AfterFailedGet(t)
      /\ ret[t].kind = "ok" /\ EngineStarted(t)
      /\ playwright_browser = ret[t].val

\* The platforms _get_edge_path knows.
Supported == {"Windows", "Darwin", "Linux"}

\* C13: whatever the platform and the set of existing install paths,
\* _get_edge_path raises the OS-support error on a platform other than Windows,
\* macOS and Linux, raises the not-found error on a supported platform none of
\* whose known paths exists, and otherwise returns an existing known path of the
\* platform (the matching one when exactly one exists).
C13_EdgePathDiscovery ==
    \A t \in Tasks :
      LET found == machine.existing \cap KnownPaths(machine.system) IN
      loc[t].edge_path # NoneStr =>
        IF machine.system \notin Supported THEN loc[t].edge_path = "OSError"
        ELSE IF found = {} THEN loc[t].edge_path = "FileNotFoundError"
        ELSE loc[t].edge_path \in found

\* One of the four handles is live.
AnyLive ==
    \/ Truthy(playwright) \/ Truthy(playwright_browser)
    \/ Truthy(browser_context) \/ Truthy(temp_dir)

\* C14: a manager destroyed while one of its four handles was live has had close()
\* invoked by the destructor (scheduled on the event loop or run), whether or not
\* an event loop was running: a destructor that did not invoke close() leaves no
\* live handle behind (no call follows the destruction, so the handles stay as the
\* destructor found them).
C14_DestructorCloses == (destroyed # "no" /\ destroyed # "scheduled") => ~AnyLive

\* A call of new_context by t has completed.
NewContextDone(t) == pc[t] = "done" /\ op[t] = "new_context"

\* C15: new_context changes none of the four handles, starts no engine and makes
\* no launch, connect, attach, probe or spawn; on a manager whose handles are
\* absent they are all still absent when it has returned.
C15_NewContextFrame ==
    \A t \in Tasks :
      op[t] = "new_context" =>
        /\ pc[t] \in {"done", "idle"}
        /\ NewContextDone(t) =>
              /\ Snapshot = pre[t]
              /\ ~EngineStarted(t)
              /\ att[t] = NoAttempts /\ loc[t] = NoLocals
              /\ ret[t].kind = "ok"
              /\ (pre[t].playwright = None /\ pre[t].playwright_browser = None
                    /\ pre[t].browser_context = None /\ pre[t].temp_dir = None)
                 => AllAbsent

\* C15 witness: new_context has returned on a manager that was never initialized,
\* with no engine, browser, context or temporary directory in existence.
C15_Witness ==
    \E t \in Tasks :
      /\ NewContextDone(t) /\ AllAbsent
      /\ engines = << >> /\ browsers = << >> /\ contexts = << >> /\ tempdirs = << >>

\* The call of t ended with an error of the spawn, of a probe or of the
\* executable discovery that the strategy does not handle: subprocess.Popen
\* raised, requests.get raised something other than ConnectionError, or
\* _get_edge_path raised.
Unhandled(t) ==
    /\ pc[t] = "done" /\ ret[t].kind = "raise"
    /\ ret[t].exc \in {"OSError", "RequestException", "FileNotFoundError"}

\* The call of t is in the local-executable strategy and its first probe came
\* back refused or with a status other than 200.
InstanceRespawn(t) ==
    /\ op[t] = "get" /\ att[t].strat = {"instance"}
    /\ att[t].firstProbe = "other"
    /\ pc[t] # "idle"
    /\ ~Unhandled(t)

EdgeRespawn(t) ==
    /\ op[t] = "get" /\ att[t].strat = {"standard"}
    /\ config.browser_type = "msedge" /\ config.use_existing_browser
    /\ TruthyStr(config.user_data_dir)
    /\ att[t].firstProbe = "other"
    /\ pc[t] # "idle"
    /\ ~Unhandled(t)

C18_SleepBetweenProbes ==
    [][\A t \in Tasks :
         (pc[t] \in {"inst_poll", "edge_poll"} /\ att'[t].probe = att[t].probe + 1)
            => att[t].lastEv # "probe"]_vars

\* The configuration that selects the Edge-with-profile path.
EdgeWithProfile(cfg) ==
    /\ ~TruthyStr(cfg.cdp_url) /\ ~TruthyStr(cfg.wss_url)
    /\ ~TruthyStr(cfg.chrome_instance_path)
    /\ cfg.browser_type = "msedge"
    /\ TruthyStr(cfg.user_data_dir)
    /\ ~cfg.use_existing_browser

\* C19: in every reachable state the browser-context handle is present only under
\* a configuration that selects the Edge-with-profile path, and the context it
\* names was opened on a browser launched by that path.
C19_ContextOnlyEdgeProfile ==
    /\ Truthy(browser_context) => EdgeWithProfile(config)
    /\ contexts # << >> =>
          /\ EdgeWithProfile(config)
          /\ \E b \in DOMAIN browsers : browsers[b].via = "edge_profile"
    /\ ~EdgeWithProfile(config) => browser_context = None

\* C19 witness: an initialization through the Edge-with-profile path has returned
\* with the context handle recorded.
C19_Witness ==
    \E t \in Tasks :
      /\ GetDone(t) /\ ret[t].kind = "ok" /\ EngineStarted(t)
      /\ Truthy(browser_context) /\ contexts[browser_context] = "open"
      /\ browsers[ret[t].val].via = "edge_profile"

\* C20: a browser launched by the Edge-with-profile path was launched with the
\* temporary profile directory created for it as its user-data directory, with
\* the flags of disable_security_args, and with the flags that disable private
\* browsing.
C20_ProfileLaunchArgs ==
    \A b \in DOMAIN browsers :
      browsers[b].via = "edge_profile" =>
        /\ Truthy(browsers[b].profile)
        /\ UserDataDirArg(browsers[b].profile) \in Range(browsers[b].args)
        /\ Range(DisableSecurityArgs(config)) \subseteq Range(browsers[b].args)
        /\ Range(PrivateBrowsingArgs) \subseteq Range(browsers[b].args)

\* C21: within one close() that tears down, a step is attempted only after the
\* steps before it in the order context close, browser close, engine stop,
\* temp-directory cleanup, for every handle that was present at the call: the
\* engine is not stopped and the temporary directory is not removed before the
\* browser close has been attempted, and each step is attempted at most once.
C21_TeardownOrder ==
    \A t \in Tasks :
      (op[t] = "close" /\ pc[t] # "idle") =>
        /\ att[t].ctxClose <= 1 /\ att[t].brClose <= 1
        /\ att[t].stop <= 1 /\ att[t].cleanup <= 1
        /\ (att[t].brClose > 0 /\ Truthy(pre[t].browser_context)) =>
              att[t].ctxClose = 1
        /\ (att[t].stop > 0 /\ Truthy(pre[t].playwright_browser)) =>
              att[t].brClose = 1
        /\ (att[t].cleanup > 0 /\ Truthy(pre[t].playwright_browser)) =>
              att[t].brClose = 1
        /\ (att[t].cleanup > 0 /\ Truthy(pre[t].playwright)) => att[t].stop = 1
        /\ (att[t].stop > 0 \/ att[t].cleanup > 0) =>
              (Truthy(pre[t].browser_context) => att[t].ctxClose = 1)

\* C21 witness: a close() on a manager with all four handles present has run the
\* four steps.
C21_Witness ==
    \E t \in Tasks :
      /\ CloseDone(t)
      /\ Truthy(pre[t].playwright) /\ Truthy(pre[t].playwright_browser)
      /\ Truthy(pre[t].browser_context) /\ Truthy(pre[t].temp_dir)
      /\ att[t].ctxClose = 1 /\ att[t].brClose = 1
      /\ att[t].stop = 1 /\ att[t].cleanup = 1

\* C22: when get_playwright_browser has returned or raised, the engine its
\* initialization started is recorded as the manager's engine handle or has been
\* stopped already.
C22_NoLeakedEngine ==
    \A t \in Tasks :
      (GetDone(t) /\ EngineStarted(t)) =>
        \/ playwright = loc[t].pw
        \/ engines[loc[t].pw] = "stopped"

\* C23: when an initialization that created a temporary profile directory has
\* failed, that directory is the one recorded in the temp-directory handle,
\* in the Edge launch path with a user-data directory and in the one without.
C23_TempDirRecordedOnFailure ==
    \A t \in Tasks :
      (GetDone(t) /\ ret[t].kind = "raise" /\ Truthy(loc[t].tmp)) =>
        temp_dir = loc[t].tmp

\* The await points of close().
CloseAwaitPcs == {"c_ctx_wait", "c_browser_wait", "c_stop_wait"}

\* The get_playwright_browser call of t ran, without initializing, while a
\* close() of another coroutine was suspended at one of its await points.
GetDuringClose(t) ==
    /\ GetDone(t)
    /\ pre[t].playwright_browser # None
    /\ \E u \in Tasks \ {t} : op[u] = "close" /\ pc[u] \in CloseAwaitPcs

\* C24: a get_playwright_browser call that runs while a close() is suspended at
\* an await point and does not initialize returns the recorded browser handle,
\* which has not been closed; it does not raise for a deleted attribute.
C24_GetDuringClose ==
    \A t \in Tasks :
      GetDuringClose(t) =>
        /\ ret[t].kind = "ok"
        /\ ret[t].exc # "AttributeError"
        /\ ret[t].val = pre[t].playwright_browser
        /\ browsers[ret[t].val].st = "open"

====
